---- MODULE Spec2Model ----
(***************************************************************************)
(* A model of clangd's semantic highlighting                               *)
(* (clang-tools-extra/clangd/SemanticHighlighting.cpp): the classifier     *)
(* (kindForDecl, kindForType, kindForCandidateDecls), the token collector  *)
(* (HighlightingTokenCollector), the line diff (diffHighlightings) and the *)
(* wire encoder (toSemanticHighlightingInformation, encodeBase64).         *)
(***************************************************************************)
EXTENDS Integers, Sequences, FiniteSets, TLC

VARIABLES
    call,        \* which entry point of the file this run exercises
    MacroRanges, \* AST.getMacros().Ranges
    Traversal,   \* the visit calls TraverseAST makes on this AST, in order
    cursor,      \* the index in Traversal of the next visit call
    Tokens,      \* HighlightingTokenCollector::Tokens
    RawStream,   \* Tokens as it was when llvm::sort was called
    Collected,   \* the vector collectTokens returned
    visitRet,    \* FALSE once a visit handler has told the traversal to stop
    cpc,         \* collectTokens: "traverse" or "done"
    New, Old,    \* diffHighlightings' arguments
    NewLine,     \* diffHighlightings' NewLine, as [b |-> begin, e |-> end] offsets into New
    OldLine,     \* diffHighlightings' OldLine, the same into Old
    LineNumber,  \* diffHighlightings' loop variable
    DiffedLines, \* diffHighlightings' result vector
    dpc,         \* diffHighlightings: "loop" or "done"
    WireIn,      \* toSemanticHighlightingInformation's argument
    CharSigned,  \* whether plain char is a signed type in this build
    WireBytes,   \* the LineByteTokens buffer of each line, as byte values 0..255
    WireOut,     \* the vector toSemanticHighlightingInformation returned
    wpc          \* toSemanticHighlightingInformation: "call" or "done"

vars == << call, MacroRanges, Traversal, cursor, Tokens, RawStream, Collected, visitRet, cpc,
           New, Old, NewLine, OldLine, LineNumber, DiffedLines, dpc,
           WireIn, CharSigned, WireBytes, WireOut, wpc >>

collectVars == << MacroRanges, Traversal, cursor, Tokens, RawStream, Collected, visitRet, cpc >>
diffVars == << New, Old, NewLine, OldLine, LineNumber, DiffedLines, dpc >>
wireVars == << WireIn, CharSigned, WireBytes, WireOut, wpc >>

\* llvm::None, where a kind or a name kind is expected
None == "None"
\* a null declaration pointer
NoDecl == [cls |-> "null"]
\* llvm::None, where a range is expected
NoRange == [norange |-> TRUE]

----------------------------------------------------------------------------
(* HighlightingKind, Position, Range, HighlightingToken *)

\* enum class HighlightingKind, in declaration order: a kind's ordinal is its
\* index here minus one.
HighlightingKinds ==
    << "Variable", "LocalVariable", "Parameter", "Function", "Method",
       "StaticMethod", "Field", "StaticField", "Class", "Enum", "EnumConstant",
       "Typedef", "DependentType", "DependentName", "Namespace",
       "TemplateParameter", "Primitive", "Macro" >>

KindSet == { HighlightingKinds[i] : i \in 1..Len(HighlightingKinds) }

\* static_cast<int>(Kind)
KindOrdinal(k) == (CHOOSE i \in 1..Len(HighlightingKinds) : HighlightingKinds[i] = k) - 1

Pos(l, c) == [line |-> l, character |-> c]
Rng(l1, c1, l2, c2) == [start |-> Pos(l1, c1), end |-> Pos(l2, c2)]
Tok(k, r) == [Kind |-> k, R |-> r]

\* operator<(Position, Position): std::tie(line, character)
PositionLess(a, b) ==
    \/ a.line < b.line
    \/ a.line = b.line /\ a.character < b.character

\* operator<(Range, Range): std::tie(start, end)
RangeLess(a, b) ==
    \/ PositionLess(a.start, b.start)
    \/ a.start = b.start /\ PositionLess(a.end, b.end)

\* A plausible slip: the kind compared first, the range as the tie-break.
TokenLessKindFirst(L, R) ==
    \/ KindOrdinal(L.Kind) < KindOrdinal(R.Kind)
    \/ L.Kind = R.Kind /\ RangeLess(L.R, R.R)

\* operator<(HighlightingToken, HighlightingToken): std::tie(R, Kind)
TokenLess(L, R) ==
    \/ RangeLess(L.R, R.R)
    \/ L.R = R.R /\ KindOrdinal(L.Kind) < KindOrdinal(R.Kind)

\* operator==(HighlightingToken, HighlightingToken)
TokenEq(L, R) == L.R = R.R /\ L.Kind = R.Kind

\* std::is_sorted
IsSorted(s) == \A i \in 1..(Len(s) - 1) : ~TokenLess(s[i + 1], s[i])

----------------------------------------------------------------------------
(* HighlightingTokenCollector::collectTokens, after the traversal *)

RECURSIVE InsertSorted(_, _)
InsertSorted(t, s) ==
    IF s = << >> THEN << t >>
    ELSE IF TokenLess(t, Head(s)) THEN << t >> \o s
    ELSE << Head(s) >> \o InsertSorted(t, Tail(s))

\* llvm::sort(Tokens)
RECURSIVE SortTokens(_)
SortTokens(s) ==
    IF s = << >> THEN << >> ELSE InsertSorted(Head(s), SortTokens(Tail(s)))

\* A plausible slip: the duplicate-removal step left out.
UniqueNoop(s) == s

\* std::unique + erase: of each run of equal neighbours the first is kept
RECURSIVE Unique(_)
Unique(s) ==
    IF Len(s) <= 1 THEN s
    ELSE IF TokenEq(s[1], s[2]) THEN Unique(Tail(s))
    ELSE << Head(s) >> \o Unique(Tail(s))

\* TokRef.take_while(T.R == TokRef.front().R).size()
RECURSIVE ConflictingSize(_, _)
ConflictingSize(TokRef, r) ==
    IF TokRef = << >> \/ Head(TokRef).R # r THEN 0
    ELSE 1 + ConflictingSize(Tail(TokRef), r)

\* A plausible slip: the first token of every run kept, whatever the run's length.
RECURSIVE KeepFirstOfRun(_)
KeepFirstOfRun(TokRef) ==
    IF TokRef = << >> THEN << >>
    ELSE LET n == ConflictingSize(TokRef, Head(TokRef).R)
         IN  << Head(TokRef) >> \o KeepFirstOfRun(SubSeq(TokRef, n + 1, Len(TokRef)))

\* the loop building NonConflicting
RECURSIVE NonConflicting(_)
NonConflicting(TokRef) ==
    IF TokRef = << >> THEN << >>
    ELSE LET n == ConflictingSize(TokRef, Head(TokRef).R)
             rest == NonConflicting(SubSeq(TokRef, n + 1, Len(TokRef)))
         IN  IF n = 1 THEN << Head(TokRef) >> \o rest ELSE rest

\* Tokens.push_back({HighlightingKind::Macro, M}) for every macro range
WithMacros(toks, macros) ==
    toks \o [i \in 1..Len(macros) |-> Tok("Macro", macros[i])]

\* sort, unique, conflict removal: what collectTokens returns for a raw stream
Canonicalize(raw) == NonConflicting(Unique(SortTokens(raw)))

----------------------------------------------------------------------------
(* Declarations and types as the classifier sees them *)

\* The clang AST classes a declaration of each class is an instance of
\* (llvm::isa / dyn_cast), itself included.
DeclBases ==
    [ UsingShadowDecl |-> {"UsingShadowDecl"},
      ClassTemplateDecl |-> {"ClassTemplateDecl", "TemplateDecl"},
      FunctionTemplateDecl |-> {"FunctionTemplateDecl", "TemplateDecl"},
      TypeAliasTemplateDecl |-> {"TypeAliasTemplateDecl", "TemplateDecl"},
      VarTemplateDecl |-> {"VarTemplateDecl", "TemplateDecl"},
      TemplateTemplateParmDecl |-> {"TemplateTemplateParmDecl", "TemplateDecl"},
      TypedefDecl |-> {"TypedefDecl", "TypedefNameDecl"},
      TypeAliasDecl |-> {"TypeAliasDecl", "TypedefNameDecl"},
      RecordDecl |-> {"RecordDecl", "TagDecl"},
      CXXRecordDecl |-> {"CXXRecordDecl", "RecordDecl", "TagDecl"},
      EnumDecl |-> {"EnumDecl", "TagDecl"},
      FunctionDecl |-> {"FunctionDecl", "DeclaratorDecl", "ValueDecl"},
      CXXMethodDecl |-> {"CXXMethodDecl", "FunctionDecl", "DeclaratorDecl", "ValueDecl"},
      CXXConstructorDecl |-> {"CXXConstructorDecl", "CXXMethodDecl", "FunctionDecl",
                              "DeclaratorDecl", "ValueDecl"},
      CXXDestructorDecl |-> {"CXXDestructorDecl", "CXXMethodDecl", "FunctionDecl",
                             "DeclaratorDecl", "ValueDecl"},
      CXXConversionDecl |-> {"CXXConversionDecl", "CXXMethodDecl", "FunctionDecl",
                             "DeclaratorDecl", "ValueDecl"},
      FieldDecl |-> {"FieldDecl", "DeclaratorDecl", "ValueDecl"},
      EnumConstantDecl |-> {"EnumConstantDecl", "ValueDecl"},
      VarDecl |-> {"VarDecl", "DeclaratorDecl", "ValueDecl"},
      ParmVarDecl |-> {"ParmVarDecl", "VarDecl", "DeclaratorDecl", "ValueDecl"},
      BindingDecl |-> {"BindingDecl", "ValueDecl"},
      NonTypeTemplateParmDecl |-> {"NonTypeTemplateParmDecl", "DeclaratorDecl", "ValueDecl"},
      TemplateTypeParmDecl |-> {"TemplateTypeParmDecl"},
      NamespaceDecl |-> {"NamespaceDecl"},
      NamespaceAliasDecl |-> {"NamespaceAliasDecl"},
      UsingDirectiveDecl |-> {"UsingDirectiveDecl"},
      LabelDecl |-> {"LabelDecl"} ]

\* isa<C>(D)
isa(D, C) == C \in DeclBases[D.cls]

\* A declaration: its class, the flags the classifier asks for, and the
\* declaration or type it wraps (getTargetDecl, getTemplatedDecl,
\* getUnderlyingType), NoDecl when it wraps nothing.
Decl(c, st, lam, sdm, loc, in) ==
    [cls |-> c, isStatic |-> st, isLambda |-> lam, isStaticDataMember |-> sdm,
     isLocalVarDecl |-> loc, inner |-> in]
Leaf(c) == Decl(c, FALSE, FALSE, FALSE, FALSE, NoDecl)
Wrap(c, in) == Decl(c, FALSE, FALSE, FALSE, FALSE, in)

\* A type: its type class and the declaration behind it (getDecl, getAsTagDecl)
Type(tc, d) == [tc |-> tc, decl |-> d]
\* a null Type pointer
NoType == Type("Null", NoDecl)

\* A plausible slip: the free-function test placed before the member-function
\* and constructor tests.
kindForDeclFunctionFirst(D0) ==
    LET D1 == IF isa(D0, "UsingShadowDecl") /\ D0.inner # NoDecl THEN D0.inner ELSE D0
        D == IF isa(D1, "TemplateDecl") /\ D1.inner # NoDecl THEN D1.inner ELSE D1
    IN  IF isa(D, "RecordDecl") THEN (IF D.isLambda THEN None ELSE "Class")
        ELSE IF isa(D, "FunctionDecl") THEN "Function"
        ELSE IF isa(D, "CXXConstructorDecl") THEN "Class"
        ELSE IF isa(D, "CXXMethodDecl")
             THEN (IF D.isStatic THEN "StaticMethod" ELSE "Method")
        ELSE IF isa(D, "FieldDecl") THEN "Field"
        ELSE None

RECURSIVE kindForDecl(_), kindForType(_)
\* kindForDecl(const NamedDecl *D)
kindForDecl(D0) ==
    LET D1 == IF isa(D0, "UsingShadowDecl") /\ D0.inner # NoDecl THEN D0.inner ELSE D0
        D == IF isa(D1, "TemplateDecl") /\ D1.inner # NoDecl THEN D1.inner ELSE D1
    IN  IF isa(D, "TypedefNameDecl")
        THEN LET K == kindForType(D.inner)
             IN  IF K # None THEN K ELSE "Typedef"
        ELSE IF isa(D, "RecordDecl")
        THEN (IF D.isLambda THEN None ELSE "Class")
        ELSE IF isa(D, "ClassTemplateDecl") \/ isa(D, "RecordDecl")
                \/ isa(D, "CXXConstructorDecl")
        THEN "Class"
        ELSE IF isa(D, "CXXMethodDecl")
        THEN (IF D.isStatic THEN "StaticMethod" ELSE "Method")
        ELSE IF isa(D, "FieldDecl") THEN "Field"
        ELSE IF isa(D, "EnumDecl") THEN "Enum"
        ELSE IF isa(D, "EnumConstantDecl") THEN "EnumConstant"
        ELSE IF isa(D, "ParmVarDecl") THEN "Parameter"
        ELSE IF isa(D, "VarDecl")
        THEN (IF D.isStaticDataMember THEN "StaticField"
              ELSE IF D.isLocalVarDecl THEN "LocalVariable" ELSE "Variable")
        ELSE IF isa(D, "BindingDecl") THEN "Variable"
        ELSE IF isa(D, "FunctionDecl") THEN "Function"
        ELSE IF isa(D, "NamespaceDecl") \/ isa(D, "NamespaceAliasDecl")
                \/ isa(D, "UsingDirectiveDecl")
        THEN "Namespace"
        ELSE IF isa(D, "TemplateTemplateParmDecl") \/ isa(D, "TemplateTypeParmDecl")
                \/ isa(D, "NonTypeTemplateParmDecl")
        THEN "TemplateParameter"
        ELSE None

\* kindForType(const Type *TP); a null TP is the type of class "Null"
kindForType(TP) ==
    IF TP.tc = "Null" THEN None
    ELSE IF TP.tc = "Builtin" THEN "Primitive"
    ELSE IF TP.tc = "TemplateTypeParm" THEN kindForDecl(TP.decl)
    ELSE IF TP.decl # NoDecl THEN kindForDecl(TP.decl)
    ELSE None

\* A plausible slip: a disagreement between candidates not noticed, the last
\* candidate's kind returned.
RECURSIVE kindForCandidateDeclsLast(_, _)
kindForCandidateDeclsLast(Decls, Result) ==
    IF Decls = << >> THEN Result
    ELSE LET Kind == kindForDecl(Head(Decls))
         IN  IF Kind = None THEN None
             ELSE kindForCandidateDeclsLast(Tail(Decls), Kind)

\* kindForCandidateDecls(Decls): the loop from the candidate at the head of
\* Decls on, Result being what the candidates before it gave (None at the start)
RECURSIVE kindForCandidateDecls(_, _)
kindForCandidateDecls(Decls, Result) ==
    IF Decls = << >> THEN Result
    ELSE LET Kind == kindForDecl(Head(Decls))
         IN  IF Kind = None \/ (Result # None /\ Kind # Result) THEN None
             ELSE kindForCandidateDecls(Tail(Decls), Kind)

\* canHighlightName(DeclarationName): Name is the name's kind, "Identifier"
\* for a non-empty identifier and "EmptyIdentifier" for a name with no
\* identifier text (anonymous declarations)
canHighlightName(Name) ==
    \/ Name = "CXXConstructorName"
    \/ Name = "CXXUsingDirective"
    \/ Name = "Identifier"

----------------------------------------------------------------------------
(* HighlightingTokenCollector: addToken and the visit handlers *)

\* A SourceLocation as addToken sees it: isInvalid(), isMacroID(),
\* SM.isMacroArgExpansion(Loc), and for the location that reaches them (the
\* spelling location of a macro argument, else the location itself)
\* isInsideMainFile and getTokenRange (NoRange when it fails).
SrcLoc(inv, mac, arg, main, r) ==
    [isInvalid |-> inv, isMacroID |-> mac, isMacroArgExpansion |-> arg,
     insideMainFile |-> main, tokenRange |-> r]
FileLoc(r) == SrcLoc(FALSE, FALSE, FALSE, TRUE, r)

\* addToken without the test of macro locations
addTokenKindAnyMacro(toks, Loc, Kind) ==
    IF Loc.isInvalid THEN toks
    ELSE IF ~Loc.insideMainFile THEN toks
    ELSE IF Loc.tokenRange = NoRange THEN toks
    ELSE Append(toks, Tok(Kind, Loc.tokenRange))

\* addToken(SourceLocation Loc, HighlightingKind Kind): Tokens afterwards
addTokenKind(toks, Loc, Kind) ==
    IF Loc.isInvalid THEN toks
    ELSE IF Loc.isMacroID /\ ~Loc.isMacroArgExpansion THEN toks
    ELSE IF ~Loc.insideMainFile THEN toks
    ELSE IF Loc.tokenRange = NoRange THEN toks
    ELSE Append(toks, Tok(Kind, Loc.tokenRange))

\* addToken(SourceLocation Loc, const NamedDecl *D): Tokens afterwards
addTokenDecl(toks, Loc, D) ==
    LET K == kindForDecl(D)
    IN  IF K # None THEN addTokenKind(toks, Loc, K) ELSE toks

\* One visit call: the handler, the location it reads, and its node's name
\* kind, declaration, candidate declarations, type and boolean property
\* (None, NoDecl, << >>, NoType, FALSE for what the handler does not read).
Visit(shape, loc, name, decl, decls, type, flag) ==
    [shape |-> shape, loc |-> loc, name |-> name, decl |-> decl, decls |-> decls,
     type |-> type, flag |-> flag]

Visiting(shape) ==
    /\ cpc = "traverse"
    /\ visitRet
    /\ cursor <= Len(Traversal)
    /\ Traversal[cursor].shape = shape

\* the handler leaves Tokens as toks and returns ret to the traversal
Visited(toks, ret) ==
    /\ Tokens' = toks
    /\ visitRet' = ret
    /\ cursor' = cursor + 1
    /\ UNCHANGED << call, MacroRanges, Traversal, RawStream, Collected, cpc >>
    /\ UNCHANGED << diffVars, wireVars >>

VisitNamespaceAliasDecl ==
    /\ Visiting("NamespaceAliasDecl")
    /\ LET NAD == Traversal[cursor]
       IN  Visited(addTokenDecl(Tokens, NAD.loc, NAD.decl), TRUE)

VisitMemberExpr ==
    /\ Visiting("MemberExpr")
    /\ LET ME == Traversal[cursor]
       IN  Visited(IF canHighlightName(ME.name)
                   THEN addTokenDecl(Tokens, ME.loc, ME.decl) ELSE Tokens, TRUE)

VisitOverloadExpr ==
    /\ Visiting("OverloadExpr")
    /\ LET E == Traversal[cursor]
           K == kindForCandidateDecls(E.decls, None)
       IN  Visited(IF canHighlightName(E.name)
                   THEN addTokenKind(Tokens, E.loc,
                                     IF K # None THEN K ELSE "DependentName")
                   ELSE Tokens, TRUE)

VisitDependentScopeDeclRefExpr ==
    /\ Visiting("DependentScopeDeclRefExpr")
    /\ LET E == Traversal[cursor]
       IN  Visited(IF canHighlightName(E.name)
                   THEN addTokenKind(Tokens, E.loc, "DependentName") ELSE Tokens, TRUE)

VisitCXXDependentScopeMemberExpr ==
    /\ Visiting("CXXDependentScopeMemberExpr")
    /\ LET E == Traversal[cursor]
       IN  Visited(IF canHighlightName(E.name)
                   THEN addTokenKind(Tokens, E.loc, "DependentName") ELSE Tokens, TRUE)

VisitNamedDecl ==
    /\ Visiting("NamedDecl")
    /\ LET ND == Traversal[cursor]
       IN  Visited(IF canHighlightName(ND.name)
                   THEN addTokenDecl(Tokens, ND.loc, ND.decl) ELSE Tokens, TRUE)

VisitUsingDecl ==
    /\ Visiting("UsingDecl")
    /\ LET UD == Traversal[cursor]
           K == kindForCandidateDecls(UD.decls, None)
       IN  Visited(IF K # None THEN addTokenKind(Tokens, UD.loc, K) ELSE Tokens, TRUE)

VisitDeclRefExpr ==
    /\ Visiting("DeclRefExpr")
    /\ LET Ref == Traversal[cursor]
       IN  Visited(IF canHighlightName(Ref.name)
                   THEN addTokenDecl(Tokens, Ref.loc, Ref.decl) ELSE Tokens, TRUE)

VisitTypedefTypeLoc ==
    /\ Visiting("TypedefTypeLoc")
    /\ LET TL == Traversal[cursor]
       IN  Visited(addTokenDecl(Tokens, TL.loc, TL.decl), TRUE)

\* decl is NoDecl when getAsTemplateDecl() is null
VisitTemplateSpecializationTypeLoc ==
    /\ Visiting("TemplateSpecializationTypeLoc")
    /\ LET TL == Traversal[cursor]
       IN  Visited(IF TL.decl # NoDecl
                   THEN addTokenDecl(Tokens, TL.loc, TL.decl) ELSE Tokens, TRUE)

\* flag is L.isDefinition()
VisitTagTypeLoc ==
    /\ Visiting("TagTypeLoc")
    /\ LET L == Traversal[cursor]
           K == kindForType(L.type)
       IN  Visited(IF L.flag THEN Tokens
                   ELSE IF K # None THEN addTokenKind(Tokens, L.loc, K)
                   ELSE Tokens, TRUE)

VisitDecltypeTypeLoc ==
    /\ Visiting("DecltypeTypeLoc")
    /\ LET L == Traversal[cursor]
           K == kindForType(L.type)
       IN  Visited(IF K # None THEN addTokenKind(Tokens, L.loc, K) ELSE Tokens, TRUE)

VisitDependentNameTypeLoc ==
    /\ Visiting("DependentNameTypeLoc")
    /\ Visited(addTokenKind(Tokens, Traversal[cursor].loc, "DependentType"), TRUE)

VisitTemplateTypeParmTypeLoc ==
    /\ Visiting("TemplateTypeParmTypeLoc")
    /\ Visited(addTokenKind(Tokens, Traversal[cursor].loc, "TemplateParameter"), TRUE)

\* name is the specifier's kind, None when getNestedNameSpecifier() is null;
\* the value returned is the base class traversal's, which is true because no
\* handler of this visitor returns false
TraverseNestedNameSpecifierLoc ==
    /\ Visiting("NestedNameSpecifierLoc")
    /\ LET NNSLoc == Traversal[cursor]
       IN  Visited(IF NNSLoc.name \in {"Namespace", "NamespaceAlias"}
                   THEN addTokenKind(Tokens, NNSLoc.loc, "Namespace") ELSE Tokens,
                   TRUE)

\* decl is CI->getMember(), NoDecl when the initializer names no field
TraverseConstructorInitializer ==
    /\ Visiting("ConstructorInitializer")
    /\ LET CI == Traversal[cursor]
       IN  Visited(IF CI.decl # NoDecl
                   THEN addTokenDecl(Tokens, CI.loc, CI.decl) ELSE Tokens,
                   TRUE)

\* flag is whether the type contains an auto type; type is its deduced type
VisitDeclaratorDecl ==
    /\ Visiting("DeclaratorDecl")
    /\ LET D == Traversal[cursor]
           K == kindForType(D.type)
       IN  Visited(IF ~D.flag THEN Tokens
                   ELSE IF K = None THEN Tokens
                   ELSE addTokenKind(Tokens, D.loc, K), TRUE)

\* collectTokens once TraverseAST has returned: the macro tokens, the sort,
\* the duplicate removal and the conflict removal
CollectFinish ==
    /\ cpc = "traverse"
    /\ cursor > Len(Traversal)
    /\ LET raw == WithMacros(Tokens, MacroRanges)
           uniq == Unique(SortTokens(raw))
       IN  /\ RawStream' = raw
           /\ Tokens' = uniq
           /\ Collected' = NonConflicting(uniq)
    /\ cpc' = "done"
    /\ UNCHANGED << call, MacroRanges, Traversal, cursor, visitRet >>
    /\ UNCHANGED << diffVars, wireVars >>

----------------------------------------------------------------------------
(* Inputs *)

\* the longest traversal, in visit calls, of the collector runs
MaxRaw == 3
\* the most macro expansion ranges of the collector runs
MaxMacros == 1
\* the most candidate declarations of an overload or shadow set
MaxCands == 2

SeqsUpTo(S, n) == UNION { [1..k -> S] : k \in 0..n }

NoCollect ==
    /\ MacroRanges = << >> /\ Traversal = << >> /\ cursor = 1
    /\ Tokens = << >> /\ RawStream = << >> /\ Collected = << >>
    /\ visitRet = TRUE /\ cpc = "idle"

NoDiff ==
    /\ New = << >> /\ Old = << >>
    /\ NewLine = [b |-> 0, e |-> 0] /\ OldLine = [b |-> 0, e |-> 0]
    /\ LineNumber = 0 /\ DiffedLines = << >> /\ dpc = "idle"

NoWire ==
    /\ WireIn = << >> /\ CharSigned = FALSE /\ WireBytes = << >>
    /\ WireOut = << >> /\ wpc = "idle"

\* ranges of the collector runs: two that start together, one on a later line
CollectRanges == { Rng(0, 0, 0, 1), Rng(0, 0, 0, 3), Rng(1, 2, 1, 5) }

\* locations of the collector runs: one per range, and one in a macro body
CollectLocs ==
    { FileLoc(r) : r \in CollectRanges }
        \cup { SrcLoc(FALSE, TRUE, FALSE, TRUE, Rng(0, 0, 0, 1)) }

CollectVisits ==
    { Visit(sh, l, None, NoDecl, << >>, NoType, FALSE) :
        sh \in {"DependentNameTypeLoc", "TemplateTypeParmTypeLoc"}, l \in CollectLocs }

InitCollect ==
    /\ call = "collectTokens"
    /\ Traversal \in SeqsUpTo(CollectVisits, MaxRaw)
    /\ MacroRanges \in SeqsUpTo(CollectRanges, MaxMacros)
    /\ cursor = 1 /\ Tokens = << >> /\ RawStream = << >> /\ Collected = << >>
    /\ visitRet = TRUE /\ cpc = "traverse"
    /\ NoDiff /\ NoWire

NextCollect ==
    \/ VisitDependentNameTypeLoc
    \/ VisitTemplateTypeParmTypeLoc
    \/ CollectFinish

SpecCollect == InitCollect /\ [][NextCollect]_vars

----------------------------------------------------------------------------
(* Inputs of the classifier runs: declarations, types, visit calls *)

Methods ==
    { Decl("CXXMethodDecl", st, FALSE, FALSE, FALSE, NoDecl) : st \in BOOLEAN }
        \cup { Leaf("CXXConstructorDecl"), Leaf("CXXDestructorDecl"),
               Leaf("CXXConversionDecl") }

LambdaClass == Decl("CXXRecordDecl", FALSE, TRUE, FALSE, FALSE, NoDecl)
Records == { Leaf("RecordDecl"), Leaf("CXXRecordDecl"), LambdaClass }

Variables ==
    { Leaf("VarDecl"),
      Decl("VarDecl", FALSE, FALSE, TRUE, FALSE, NoDecl),
      Decl("VarDecl", FALSE, FALSE, FALSE, TRUE, NoDecl) }

SimpleDecls ==
    { Leaf(c) : c \in { "EnumDecl", "FunctionDecl", "FieldDecl", "EnumConstantDecl",
                        "ParmVarDecl", "BindingDecl", "NonTypeTemplateParmDecl",
                        "TemplateTypeParmDecl", "NamespaceDecl", "NamespaceAliasDecl",
                        "UsingDirectiveDecl", "LabelDecl" } }

Types ==
    { NoType, Type("Builtin", NoDecl), Type("Other", NoDecl),
      Type("TemplateTypeParm", Leaf("TemplateTypeParmDecl")) }
        \cup { Type("Tag", d) : d \in Records \cup { Leaf("EnumDecl") } }

Typedefs == { Wrap(c, t) : c \in { "TypedefDecl", "TypeAliasDecl" }, t \in Types }

PlainDecls == Methods \cup Records \cup Variables \cup SimpleDecls \cup Typedefs

Templates ==
    { Wrap("ClassTemplateDecl", Leaf("CXXRecordDecl")), Wrap("ClassTemplateDecl", NoDecl),
      Wrap("TemplateTemplateParmDecl", NoDecl) }
        \cup { Wrap("FunctionTemplateDecl", f) :
               f \in (Methods \ { Leaf("CXXDestructorDecl") }) \cup { Leaf("FunctionDecl") } }
        \cup { Wrap("TypeAliasTemplateDecl", Wrap("TypeAliasDecl", t)) : t \in Types }
        \cup { Wrap("VarTemplateDecl", v) :
               v \in { Leaf("VarDecl"), Decl("VarDecl", FALSE, FALSE, TRUE, FALSE, NoDecl) } }

Shadows == { Wrap("UsingShadowDecl", d) : d \in PlainDecls \cup Templates \cup { NoDecl } }

NamedDecls == PlainDecls \cup Templates \cup Shadows

\* the declaration a using-shadow or template declaration stands for
Named(D0) ==
    LET D1 == IF D0.cls = "UsingShadowDecl" /\ D0.inner # NoDecl THEN D0.inner ELSE D0
    IN  IF "TemplateDecl" \in DeclBases[D1.cls] /\ D1.inner # NoDecl THEN D1.inner ELSE D1

\* the kinds of name a declaration can have
NamesOf(D0) ==
    LET D == Named(D0)
    IN  IF D.cls = "CXXConstructorDecl" THEN { "CXXConstructorName" }
        ELSE IF D.cls = "CXXDestructorDecl" THEN { "CXXDestructorName" }
        ELSE IF D.cls = "CXXConversionDecl" THEN { "CXXConversionFunctionName" }
        ELSE IF D.cls = "UsingDirectiveDecl" THEN { "CXXUsingDirective" }
        ELSE IF D.cls \in { "CXXMethodDecl", "FunctionDecl" }
        THEN { "Identifier", "CXXOperatorName" }
        ELSE IF D = LambdaClass THEN { "EmptyIdentifier" }
        ELSE IF D.cls \in { "RecordDecl", "CXXRecordDecl", "EnumDecl", "NamespaceDecl",
                            "ParmVarDecl", "FieldDecl" }
        THEN { "Identifier", "EmptyIdentifier" }
        ELSE { "Identifier" }

\* the range of the classifier runs' locations
ClassifyRange == Rng(3, 4, 3, 7)

\* locations of the classifier runs: in the file, a macro argument spelled in
\* the file, and an invalid location
ClassifyLocs ==
    { FileLoc(ClassifyRange),
      SrcLoc(FALSE, TRUE, TRUE, TRUE, ClassifyRange),
      SrcLoc(TRUE, FALSE, FALSE, FALSE, NoRange) }

\* candidate declarations of overload sets, and shadow sets of using
\* declarations
Candidates ==
    { Decl("CXXMethodDecl", FALSE, FALSE, FALSE, FALSE, NoDecl),
      Decl("CXXMethodDecl", TRUE, FALSE, FALSE, FALSE, NoDecl),
      Wrap("FunctionTemplateDecl", Decl("CXXMethodDecl", FALSE, FALSE, FALSE, FALSE, NoDecl)),
      Wrap("UsingShadowDecl", Decl("CXXMethodDecl", FALSE, FALSE, FALSE, FALSE, NoDecl)),
      Leaf("FieldDecl"), Leaf("FunctionDecl"), Leaf("LabelDecl"), LambdaClass }

ShadowCandidates ==
    { Wrap("UsingShadowDecl", d) :
        d \in { Decl("CXXMethodDecl", FALSE, FALSE, FALSE, FALSE, NoDecl),
                Decl("CXXMethodDecl", TRUE, FALSE, FALSE, FALSE, NoDecl),
                Wrap("FunctionTemplateDecl", Leaf("FunctionDecl")),
                Leaf("FunctionDecl"), Leaf("FieldDecl"), Leaf("CXXRecordDecl"),
                Leaf("LabelDecl"), NoDecl } }

ValueDecls == { d \in PlainDecls : "ValueDecl" \in DeclBases[d.cls] }

\* every handler's visit calls at the locations Locs
VisitsAt(Locs) ==
    UNION {
      UNION { { Visit("NamedDecl", l, n, d, << >>, NoType, FALSE) :
                  n \in NamesOf(d), l \in Locs } : d \in NamedDecls },
      UNION { { Visit(sh, l, n, d, << >>, NoType, FALSE) :
                  sh \in { "DeclRefExpr", "MemberExpr" },
                  n \in NamesOf(d), l \in Locs } : d \in ValueDecls },
      { Visit("OverloadExpr", l, n, NoDecl, c, NoType, FALSE) :
          n \in { "Identifier", "CXXOperatorName" },
          c \in SeqsUpTo(Candidates, MaxCands), l \in Locs },
      { Visit("UsingDecl", l, "Identifier", NoDecl, c, NoType, FALSE) :
          c \in SeqsUpTo(ShadowCandidates, MaxCands), l \in Locs },
      { Visit(sh, l, n, NoDecl, << >>, NoType, FALSE) :
          sh \in { "DependentScopeDeclRefExpr", "CXXDependentScopeMemberExpr" },
          n \in { "Identifier", "CXXOperatorName" }, l \in Locs },
      { Visit("NamespaceAliasDecl", l, "Identifier", d, << >>, NoType, FALSE) :
          d \in { Leaf("NamespaceDecl"), Leaf("NamespaceAliasDecl") }, l \in Locs },
      { Visit("TypedefTypeLoc", l, None, d, << >>, NoType, FALSE) :
          d \in Typedefs, l \in Locs },
      { Visit("TemplateSpecializationTypeLoc", l, None, d, << >>, NoType, FALSE) :
          d \in Templates \cup { NoDecl }, l \in Locs },
      { Visit("TagTypeLoc", l, None, NoDecl, << >>, t, f) :
          t \in { u \in Types : u.tc = "Tag" }, f \in BOOLEAN, l \in Locs },
      { Visit("DecltypeTypeLoc", l, None, NoDecl, << >>, t, FALSE) :
          t \in Types, l \in Locs },
      { Visit(sh, l, None, NoDecl, << >>, NoType, FALSE) :
          sh \in { "DependentNameTypeLoc", "TemplateTypeParmTypeLoc" }, l \in Locs },
      { Visit("NestedNameSpecifierLoc", l, n, NoDecl, << >>, NoType, FALSE) :
          n \in { None, "Identifier", "Namespace", "NamespaceAlias", "TypeSpec", "Global" },
          l \in Locs },
      { Visit("ConstructorInitializer", l, None, d, << >>, NoType, FALSE) :
          d \in { Leaf("FieldDecl"), NoDecl }, l \in Locs },
      { Visit("DeclaratorDecl", l, None, NoDecl, << >>, t, TRUE) :
          t \in Types, l \in Locs },
      { Visit("DeclaratorDecl", l, None, NoDecl, << >>, NoType, FALSE) : l \in Locs }
    }

ClassifyVisits == VisitsAt(ClassifyLocs)

InitClassify ==
    /\ call = "collectTokens"
    /\ Traversal \in { << v >> : v \in ClassifyVisits }
    /\ MacroRanges = << >>
    /\ cursor = 1 /\ Tokens = << >> /\ RawStream = << >> /\ Collected = << >>
    /\ visitRet = TRUE /\ cpc = "traverse"
    /\ NoDiff /\ NoWire

NextClassify ==
    \/ VisitNamespaceAliasDecl
    \/ VisitMemberExpr
    \/ VisitOverloadExpr
    \/ VisitDependentScopeDeclRefExpr
    \/ VisitCXXDependentScopeMemberExpr
    \/ VisitNamedDecl
    \/ VisitUsingDecl
    \/ VisitDeclRefExpr
    \/ VisitTypedefTypeLoc
    \/ VisitTemplateSpecializationTypeLoc
    \/ VisitTagTypeLoc
    \/ VisitDecltypeTypeLoc
    \/ VisitDependentNameTypeLoc
    \/ VisitTemplateTypeParmTypeLoc
    \/ TraverseNestedNameSpecifierLoc
    \/ TraverseConstructorInitializer
    \/ VisitDeclaratorDecl
    \/ CollectFinish

SpecClassify == InitClassify /\ [][NextClassify]_vars

\* locations of the addToken runs: an invalid location, and every valid one:
\* in a file, in a macro body or a macro argument (only a macro location can
\* be a macro argument expansion); inside the main file or not; with a token
\* range or without
AddTokenLocs ==
    { SrcLoc(TRUE, FALSE, FALSE, FALSE, NoRange) }
        \cup { l \in { SrcLoc(FALSE, mac, arg, main, r) :
                          mac \in BOOLEAN, arg \in BOOLEAN, main \in BOOLEAN,
                          r \in { ClassifyRange, NoRange } } :
                  l.isMacroArgExpansion => l.isMacroID }

\* visit calls that add a token of a fixed kind whatever the node
AddTokenDirectVisits ==
    { Visit(sh, l, None, NoDecl, << >>, NoType, FALSE) :
        sh \in { "DependentNameTypeLoc", "TemplateTypeParmTypeLoc" }, l \in AddTokenLocs }

\* one visit call of any handler, or two calls of the fixed-kind handlers
InitAddToken ==
    /\ call = "collectTokens"
    /\ Traversal \in { << v >> : v \in VisitsAt(AddTokenLocs) }
                        \cup { << u, v >> : u \in AddTokenDirectVisits,
                                            v \in AddTokenDirectVisits }
    /\ MacroRanges = << >>
    /\ cursor = 1 /\ Tokens = << >> /\ RawStream = << >> /\ Collected = << >>
    /\ visitRet = TRUE /\ cpc = "traverse"
    /\ NoDiff /\ NoWire

SpecAddToken == InitAddToken /\ [][NextClassify]_vars

----------------------------------------------------------------------------
(* diffHighlightings *)

\* std::numeric_limits<int>::max()
IntMax == 2147483647

\* A plausible slip: at most one token taken, where take_while takes the run.
LineRunOne(AllTokens, StartLineIt, Line) ==
    IF StartLineIt >= Len(AllTokens) THEN 0
    ELSE IF AllTokens[StartLineIt + 1].R.start.line # Line THEN 0
    ELSE 1

\* take_while(Token.R.start.line == Line).size() on the tokens from offset
\* StartLineIt on
RECURSIVE LineRun(_, _, _)
LineRun(AllTokens, StartLineIt, Line) ==
    IF StartLineIt >= Len(AllTokens) THEN 0
    ELSE IF AllTokens[StartLineIt + 1].R.start.line # Line THEN 0
    ELSE 1 + LineRun(AllTokens, StartLineIt + 1, Line)

\* takeLine(AllTokens, StartLineIt, Line): the ArrayRef, as its begin and end
\* offsets into AllTokens
takeLine(AllTokens, StartLineIt, Line) ==
    [b |-> StartLineIt, e |-> StartLineIt + LineRun(AllTokens, StartLineIt, Line)]

\* the tokens an ArrayRef into AllTokens refers to
Slice(AllTokens, ref) == SubSeq(AllTokens, ref.b + 1, ref.e)

\* A plausible slip: slices compared by their sizes only.
SliceDiffersBySize(A, B) == Len(A) # Len(B)

\* A plausible slip: a line reported whenever either side has tokens on it.
SliceDiffersNonEmpty(A, B) == A # << >> \/ B # << >>

\* NewLine != OldLine: ArrayRef comparison, by size and then element by element
SliceDiffers(A, B) ==
    \/ Len(A) # Len(B)
    \/ \E i \in 1..Len(A) : ~TokenEq(A[i], B[i])

\* A plausible slip: the next line taken from New alone.
NextLineNumberNewOnly(nl, ol) ==
    IF nl.e # Len(New) THEN New[nl.e + 1].R.start.line ELSE IntMax

\* the NextLineNumber lambda, for the ArrayRefs nl into New and ol into Old
NextLineNumber(nl, ol) ==
    LET NextNew == IF nl.e # Len(New) THEN New[nl.e + 1].R.start.line ELSE IntMax
        NextOld == IF ol.e # Len(Old) THEN Old[ol.e + 1].R.start.line ELSE IntMax
    IN  IF NextOld < NextNew THEN NextOld ELSE NextNew

\* the for loop's condition
DiffLoopCond == NewLine.e < Len(New) \/ OldLine.e < Len(Old)

\* one iteration of the for loop: the body, then LineNumber = NextLineNumber()
DiffLoop ==
    /\ dpc = "loop"
    /\ DiffLoopCond
    /\ LET nl == takeLine(New, NewLine.e, LineNumber)
           ol == takeLine(Old, OldLine.e, LineNumber)
       IN  /\ NewLine' = nl
           /\ OldLine' = ol
           /\ DiffedLines' =
                 IF SliceDiffers(Slice(New, nl), Slice(Old, ol))
                 THEN Append(DiffedLines, [Line |-> LineNumber, Tokens |-> Slice(New, nl)])
                 ELSE DiffedLines
           /\ LineNumber' = NextLineNumber(nl, ol)
    /\ UNCHANGED << call, New, Old, dpc >>
    /\ UNCHANGED << collectVars, wireVars >>

\* the loop condition fails: return DiffedLines
DiffReturn ==
    /\ dpc = "loop"
    /\ ~DiffLoopCond
    /\ dpc' = "done"
    /\ UNCHANGED << call, New, Old, NewLine, OldLine, LineNumber, DiffedLines >>
    /\ UNCHANGED << collectVars, wireVars >>

\* the last line number of the diff runs
MaxLine == 2

\* tokens of the diff runs: two on every line
DiffUniverse ==
    UNION { { Tok("Variable", Rng(l, 0, l, 1)), Tok("Function", Rng(l, 2, l, 4)) } :
            l \in 0..MaxLine }

\* the canonical token sets over DiffUniverse: sorted, one token per range
RECURSIVE SortedSeqOf(_)
SortedSeqOf(S) ==
    IF S = {} THEN << >>
    ELSE LET m == CHOOSE t \in S : \A u \in S \ {t} : TokenLess(t, u)
         IN  << m >> \o SortedSeqOf(S \ {m})

CanonicalSets == { SortedSeqOf(S) : S \in SUBSET DiffUniverse }

InitDiff ==
    /\ call = "diffHighlightings"
    /\ New \in CanonicalSets
    /\ Old \in CanonicalSets
    /\ NewLine = [b |-> 0, e |-> 0]
    /\ OldLine = [b |-> 0, e |-> 0]
    /\ LineNumber = 0
    /\ DiffedLines = << >>
    /\ dpc = "loop"
    /\ NoCollect /\ NoWire

NextDiff == DiffLoop \/ DiffReturn

SpecDiff == InitDiff /\ [][NextDiff]_vars

\* diffHighlightings is straight-line code run by its caller's thread: while
\* it has a next step, the step is taken
SpecDiffFair == InitDiff /\ [][NextDiff]_vars /\ WF_vars(NextDiff)

----------------------------------------------------------------------------
(* toSemanticHighlightingInformation and encodeBase64 *)

\* Table, one string per character
Table ==
    << "A", "B", "C", "D", "E", "F", "G", "H", "I", "J", "K", "L", "M",
       "N", "O", "P", "Q", "R", "S", "T", "U", "V", "W", "X", "Y", "Z",
       "a", "b", "c", "d", "e", "f", "g", "h", "i", "j", "k", "l", "m",
       "n", "o", "p", "q", "r", "s", "t", "u", "v", "w", "x", "y", "z",
       "0", "1", "2", "3", "4", "5", "6", "7", "8", "9", "+", "/" >>

\* Bytes[I] promoted to int: a byte of 0x80 or more is negative where plain
\* char is signed
CharToInt(b, signed) == IF signed /\ b >= 128 THEN b - 256 ELSE b

\* the low 24 bits of a uint32_t X set to the int v. X is only read through
\* (X >> 18) & 63, (X >> 12) & 63, (X >> 6) & 63 and X & 63, none of which
\* sees a higher bit.
Low24(v) == v % 16777216

\* Table[(X >> n) & 63]
Sextet(X, n) == Table[((X \div (2 ^ n)) % 64) + 1]

\* encodeBase64(Bytes), from offset I on; Bytes holds byte values 0..255
RECURSIVE encodeBase64From(_, _, _)
encodeBase64From(Bytes, I, signed) ==
    LET B(k) == CharToInt(Bytes[I + k + 1], signed)
    IN  IF I + 2 < Len(Bytes)
        THEN LET X == Low24(B(0) * 65536 + B(1) * 256 + B(2))
             IN  << Sextet(X, 18), Sextet(X, 12), Sextet(X, 6), Sextet(X, 0) >>
                     \o encodeBase64From(Bytes, I + 3, signed)
        ELSE IF I + 1 = Len(Bytes)
        THEN LET X == Low24(B(0) * 65536)
             IN  << Sextet(X, 18), Sextet(X, 12), "=", "=" >>
        ELSE IF I + 2 = Len(Bytes)
        THEN LET X == Low24(B(0) * 65536 + B(1) * 256)
             IN  << Sextet(X, 18), Sextet(X, 12), Sextet(X, 6), "=" >>
        ELSE << >>

\* encodeBase64(Bytes): the string, one element per character
encodeBase64(Bytes, signed) == encodeBase64From(Bytes, 0, signed)

\* write32be(uint32_t I, OS): the four bytes written
write32be(I) ==
    << (I \div 16777216) % 256, (I \div 65536) % 256, (I \div 256) % 256, I % 256 >>

\* write16be(uint16_t I, OS): the two bytes written; the int argument is
\* converted to uint16_t, that is reduced modulo 2^16
write16be(I) ==
    LET U == I % 65536
    IN  << U \div 256, U % 256 >>

\* the bytes the inner loop writes for one token
TokenBytes(Token) ==
    write32be(Token.R.start.character)
        \o write16be(Token.R.end.character - Token.R.start.character)
        \o write16be(KindOrdinal(Token.Kind))

\* LineByteTokens once the inner loop has run over the line's tokens
RECURSIVE LineByteTokens(_)
LineByteTokens(LineTokens) ==
    IF LineTokens = << >> THEN << >>
    ELSE TokenBytes(Head(LineTokens)) \o LineByteTokens(Tail(LineTokens))

\* toSemanticHighlightingInformation(Tokens)
toSemanticHighlightingInformation ==
    /\ wpc = "call"
    /\ WireBytes' = [i \in 1..Len(WireIn) |-> LineByteTokens(WireIn[i].Tokens)]
    /\ WireOut' = [i \in 1..Len(WireIn) |->
                     [Line |-> WireIn[i].Line,
                      Tokens |-> encodeBase64(LineByteTokens(WireIn[i].Tokens), CharSigned)]]
    /\ wpc' = "done"
    /\ UNCHANGED << call, WireIn, CharSigned >>
    /\ UNCHANGED << collectVars, diffVars >>

\* the most tokens on a line of the encoder runs
MaxWireTokens == 2

\* start columns, lengths and kinds of the encoder runs
WireCols == { 0, 128, 32768, 2147418112 }
WireLens == { 0, 1, 128, 65535 }
WireKinds == { "Variable", "Macro" }

\* tokens of line 0 for the encoder runs: one-line tokens, and two tokens that
\* end on line 1, before and after their start column
WireTokens ==
    { Tok(k, Rng(0, c, 0, c + n)) : c \in WireCols, n \in WireLens, k \in WireKinds }
        \cup { Tok("Class", Rng(0, 5, 1, 2)), Tok("Class", Rng(0, 6, 1, 9)) }

\* the token slices a changed line can carry: in canonical order, one token
\* per range
WireLineTokens ==
    { s \in SeqsUpTo(WireTokens, MaxWireTokens) :
        \A i \in 1..(Len(s) - 1) : RangeLess(s[i].R, s[i + 1].R) }

\* changed-line lists: none, one line, or one line and a line left empty
WireInputs ==
    { << >> }
        \cup { << [Line |-> 0, Tokens |-> ts] >> : ts \in WireLineTokens }
        \cup { << [Line |-> 0, Tokens |-> ts], [Line |-> 1, Tokens |-> << >>] >> :
               ts \in WireLineTokens }

InitWire ==
    /\ call = "toSemanticHighlightingInformation"
    /\ WireIn \in WireInputs
    /\ CharSigned \in BOOLEAN
    /\ WireBytes = << >>
    /\ WireOut = << >>
    /\ wpc = "call"
    /\ NoCollect /\ NoDiff

NextWire == toSemanticHighlightingInformation

SpecWire == InitWire /\ [][NextWire]_vars

----------------------------------------------------------------------------
(* Properties of the collector, under SpecCollect *)

\* the tokens of a sequence, as a set
Elems(s) == { s[i] : i \in 1..Len(s) }
\* how often a token occurs in a sequence
Count(s, t) == Cardinality({ i \in 1..Len(s) : s[i] = t })
\* the kinds a sequence gives a range
KindsAt(s, r) == { s[i].Kind : i \in { j \in 1..Len(s) : s[j].R = r } }

\* the canonical order, spelled out: start line, start column, end line, end
\* column, kind ordinal
CanonKey(t) ==
    << t.R.start.line, t.R.start.character, t.R.end.line, t.R.end.character,
       KindOrdinal(t.Kind) >>
KeyBefore(a, b) ==
    \E i \in 1..5 : a[i] < b[i] /\ \A j \in 1..(i - 1) : a[j] = b[j]
StrictlyAscending(s) ==
    \A i \in 1..(Len(s) - 1) : KeyBefore(CanonKey(s[i]), CanonKey(s[i + 1]))

\* C1: the result of collectTokens never holds two tokens with the same range,
\* and a range to which the raw stream (traversal tokens plus Macro tokens)
\* gives two or more different kinds has no token at all in the result.
C1_NoSharedRangeNoConflict ==
    cpc = "done" =>
        /\ \A i, j \in 1..Len(Collected) : i # j => Collected[i].R # Collected[j].R
        /\ \A i, j \in 1..Len(RawStream) :
              (RawStream[i].R = RawStream[j].R /\ RawStream[i].Kind # RawStream[j].Kind)
                  => \A k \in 1..Len(Collected) : Collected[k].R # RawStream[i].R

\* a Macro token and a traversal token met on one range, and a third token on
\* another range came through
C1_Witness ==
    /\ cpc = "done"
    /\ \E i, j \in 1..Len(RawStream) :
          /\ RawStream[i].Kind = "Macro" /\ RawStream[j].Kind # "Macro"
          /\ RawStream[i].R = RawStream[j].R
          /\ \A k \in 1..Len(Collected) : Collected[k].R # RawStream[i].R
    /\ Collected # << >>

\* C2: a token whose range has exactly one kind in the raw stream is in the
\* result exactly once, however often it was added, and the result holds
\* nothing that was not in the raw stream.
C2_UnambiguousKeptOnce ==
    cpc = "done" =>
        /\ \A t \in Elems(RawStream) :
              Cardinality(KindsAt(RawStream, t.R)) = 1 => Count(Collected, t) = 1
        /\ Elems(Collected) \subseteq Elems(RawStream)

\* a token added twice is kept once while another range is in conflict
C2_Witness ==
    /\ cpc = "done"
    /\ \E t \in Elems(RawStream) :
          /\ Count(RawStream, t) >= 2
          /\ Cardinality(KindsAt(RawStream, t.R)) = 1
          /\ Count(Collected, t) = 1
    /\ \E u \in Elems(RawStream) : Cardinality(KindsAt(RawStream, u.R)) >= 2

\* C3: the result is strictly ascending in the canonical order, and sorting,
\* deduplicating and conflict-stripping it again gives the same sequence.
C3_CanonicalAndIdempotent ==
    cpc = "done" =>
        /\ StrictlyAscending(Collected)
        /\ Canonicalize(Collected) = Collected

\* a result of two or more tokens from a raw stream that was not in order
C3_Witness ==
    /\ cpc = "done"
    /\ Len(Collected) >= 2
    /\ ~StrictlyAscending(RawStream)
    /\ Canonicalize(Collected) = Collected

----------------------------------------------------------------------------
(* Properties of the classifier, under SpecClassify: one visit call per run *)

\* addToken(Loc, Kind) does not drop the location
Kept(Loc) ==
    /\ ~Loc.isInvalid
    /\ Loc.isMacroID => Loc.isMacroArgExpansion
    /\ Loc.insideMainFile
    /\ Loc.tokenRange # NoRange

\* the kind kindForDecl gives every candidate of a non-empty set, None when
\* there is no such kind
CommonKind(decls) ==
    IF decls # << >>
       /\ \E K \in KindSet : \A i \in 1..Len(decls) : kindForDecl(decls[i]) = K
    THEN CHOOSE K \in KindSet : \A i \in 1..Len(decls) : kindForDecl(decls[i]) = K
    ELSE None

\* the same candidates, last first
Reversed(decls) == [i \in 1..Len(decls) |-> decls[Len(decls) + 1 - i]]

\* C9: kindForCandidateDecls returns K exactly when the set is not empty and
\* kindForDecl gives K for every candidate, whatever the candidates' order: a
\* using declaration is given that kind or no token, and an overloaded
\* reference with a highlightable name is given that kind, or DependentName
\* when there is none.
C9_CandidatesAgreeOrDependent ==
    cursor = 2 =>
        LET V == Traversal[1]
            K == CommonKind(V.decls)
        IN  /\ V.shape \in { "UsingDecl", "OverloadExpr" }
                  => /\ kindForCandidateDecls(V.decls, None) = K
                     /\ kindForCandidateDecls(Reversed(V.decls), None) = K
            /\ (V.shape = "UsingDecl" /\ Kept(V.loc))
                  => Tokens = IF K = None THEN << >> ELSE << Tok(K, V.loc.tokenRange) >>
            /\ (V.shape = "OverloadExpr" /\ V.name = "Identifier" /\ Kept(V.loc))
                  => Tokens = << Tok(IF K = None THEN "DependentName" ELSE K,
                                     V.loc.tokenRange) >>

\* an overloaded reference whose candidates are a Method and a Field got
\* DependentName
C9_Witness ==
    /\ cursor = 2
    /\ Traversal[1].shape = "OverloadExpr"
    /\ Len(Traversal[1].decls) = 2
    /\ kindForDecl(Traversal[1].decls[1]) = "Method"
    /\ kindForDecl(Traversal[1].decls[2]) = "Field"
    /\ Tokens = << Tok("DependentName", ClassifyRange) >>

\* the visit calls that hand their declaration to kindForDecl when its name
\* can be highlighted
DeclVisits == { "NamedDecl", "DeclRefExpr", "MemberExpr" }

\* C10: for a member function, reached directly or through a using-shadow
\* and/or a template declaration, kindForDecl gives Class for a constructor,
\* else StaticMethod for a static one and Method for any other, never
\* Function; for a class it gives Class, and no kind for a lambda's class.
C10_MemberFunctionsAndClasses ==
    (cursor = 2 /\ Traversal[1].shape \in DeclVisits) =>
        LET V == Traversal[1]
            D == Named(V.decl)
            Expected ==
                IF "CXXMethodDecl" \in DeclBases[D.cls]
                THEN IF D.cls = "CXXConstructorDecl" THEN "Class"
                     ELSE IF D.isStatic THEN "StaticMethod" ELSE "Method"
                ELSE IF D.isLambda THEN None ELSE "Class"
        IN  ("CXXMethodDecl" \in DeclBases[D.cls] \/ "RecordDecl" \in DeclBases[D.cls])
                => /\ kindForDecl(V.decl) = Expected
                   /\ (V.name \in { "Identifier", "CXXConstructorName" } /\ Kept(V.loc))
                         => Tokens = IF Expected = None THEN << >>
                                     ELSE << Tok(Expected, V.loc.tokenRange) >>

\* a static member function template named through a using declaration got
\* StaticMethod
C10_Witness ==
    /\ cursor = 2
    /\ Traversal[1].shape = "NamedDecl"
    /\ Traversal[1].decl.cls = "UsingShadowDecl"
    /\ Traversal[1].decl.inner.cls = "FunctionTemplateDecl"
    /\ Traversal[1].decl.inner.inner.cls = "CXXMethodDecl"
    /\ Traversal[1].decl.inner.inner.isStatic
    /\ Tokens = << Tok("StaticMethod", ClassifyRange) >>

----------------------------------------------------------------------------
(* Properties of addToken, under SpecAddToken: one or two visit calls per run *)

\* the kind of the token a fixed-kind visit call asks addToken for, None for
\* the calls whose kind, if any, depends on the node
DirectKind(V) ==
    IF V.shape = "DependentNameTypeLoc" THEN "DependentType"
    ELSE IF V.shape = "TemplateTypeParmTypeLoc" THEN "TemplateParameter"
    ELSE IF V.shape \in { "DependentScopeDeclRefExpr", "CXXDependentScopeMemberExpr" }
            /\ V.name = "Identifier"
    THEN "DependentName"
    ELSE None

\* a visit call has just returned
VisitStep == cpc = "traverse" /\ cursor' = cursor + 1

\* C11: a visit call leaves the raw stream unchanged when its location is
\* invalid, is a macro location that is not a macro-argument expansion, is
\* outside the main file, or has no token range; otherwise the stream is
\* unchanged or grows by exactly one token, at the location's range, and it
\* grows by the token of the asked kind when the call asks addToken for a fixed
\* kind. Every visit call returns true to the traversal.
C11_AddTokenDropsOrAppendsOne ==
    [][VisitStep =>
        LET V == Traversal[cursor]
            Loc == V.loc
            Invalid == Loc.isInvalid
            MacroBody == Loc.isMacroID /\ ~Loc.isMacroArgExpansion
            Outside == ~Loc.insideMainFile
            RangeFailure == Loc.tokenRange = NoRange
            Dropped == Invalid \/ MacroBody \/ Outside \/ RangeFailure
        IN  /\ visitRet' = TRUE
            /\ Dropped => Tokens' = Tokens
            /\ Tokens' # Tokens
                  => \E K \in KindSet : Tokens' = Append(Tokens, Tok(K, Loc.tokenRange))
            /\ (~Dropped /\ DirectKind(V) # None)
                  => Tokens' = Append(Tokens, Tok(DirectKind(V), Loc.tokenRange))
    ]_vars

\* the first call's location is a macro argument spelled in the main file and
\* gave a token; the second call's location is in a macro body and gave none,
\* and the traversal went on to its end
C11_Witness ==
    /\ cursor = 3 /\ Len(Traversal) = 2
    /\ Traversal[1].loc.isMacroID /\ Traversal[1].loc.isMacroArgExpansion
    /\ Traversal[2].loc.isMacroID /\ ~Traversal[2].loc.isMacroArgExpansion
    /\ Traversal[2].loc.insideMainFile /\ Traversal[2].loc.tokenRange # NoRange
    /\ Tokens = << Tok(DirectKind(Traversal[1]), ClassifyRange) >>
    /\ visitRet = TRUE

----------------------------------------------------------------------------
(* Properties of the diff, under SpecDiff, and SpecDiffFair for termination *)

\* a token sequence's tokens that start on a line, in order
OnLine(S, line) == SelectSeq(S, LAMBDA t : t.R.start.line = line)

\* every line a token can start on, and one more
DiffLines == 0..(MaxLine + 1)

\* Old's grouping by line with the diff's records applied: a line with a
\* record takes the record's tokens
Patched(line) ==
    IF \E i \in 1..Len(DiffedLines) : DiffedLines[i].Line = line
    THEN DiffedLines[CHOOSE i \in 1..Len(DiffedLines) : DiffedLines[i].Line = line].Tokens
    ELSE OnLine(Old, line)

\* C4: diffHighlightings(S, S) returns the empty list, for the empty set and
\* for sets whose first token is not on line 0 as well.
C4_DiffOfSelfIsEmpty ==
    (dpc = "done" /\ New = Old) => DiffedLines = << >>

\* the diff of a set of two or more lines, none of them line 0, with itself
C4_Witness ==
    /\ dpc = "done" /\ New = Old /\ DiffedLines = << >>
    /\ Len(New) >= 2 /\ New[1].R.start.line > 0
    /\ New[1].R.start.line # New[Len(New)].R.start.line

\* C5: replacing in Old's grouping by start line the lines of the records of
\* diffHighlightings(New, Old) gives New's grouping by start line, on every
\* line; a line with tokens in Old and none in New has a record with no tokens.
C5_DiffCompleteness ==
    dpc = "done" =>
        /\ \A line \in DiffLines : Patched(line) = OnLine(New, line)
        /\ \A line \in DiffLines :
              (OnLine(Old, line) # << >> /\ OnLine(New, line) = << >>)
                  => \E i \in 1..Len(DiffedLines) :
                        DiffedLines[i] = [Line |-> line, Tokens |-> << >>]

\* a line lost its tokens, another changed its tokens, a third kept them
C5_Witness ==
    /\ dpc = "done"
    /\ \E line \in DiffLines : OnLine(Old, line) # << >> /\ OnLine(New, line) = << >>
    /\ \E line \in DiffLines :
          /\ OnLine(Old, line) # << >> /\ OnLine(New, line) # << >>
          /\ OnLine(Old, line) # OnLine(New, line)
    /\ \E line \in DiffLines : OnLine(Old, line) # << >> /\ OnLine(New, line) = OnLine(Old, line)
    /\ \A line \in DiffLines : Patched(line) = OnLine(New, line)

\* C6: every record is for a line whose tokens differ between New and Old,
\* carries all of New's tokens of that line, and the records are in strictly
\* increasing line order.
C6_RecordsExactAndOrdered ==
    /\ \A i \in 1..Len(DiffedLines) :
          /\ OnLine(New, DiffedLines[i].Line) # OnLine(Old, DiffedLines[i].Line)
          /\ DiffedLines[i].Tokens = OnLine(New, DiffedLines[i].Line)
    /\ \A i \in 1..(Len(DiffedLines) - 1) : DiffedLines[i].Line < DiffedLines[i + 1].Line

\* one line went from one token to two, the other lines did not change: one
\* record, with both tokens
C6_Witness ==
    /\ dpc = "done"
    /\ Len(DiffedLines) = 1
    /\ Len(DiffedLines[1].Tokens) = 2
    /\ Len(OnLine(Old, DiffedLines[1].Line)) = 1
    /\ Len(New) > 2

\* the start lines of the first unconsumed token of New and of Old
PendingLines ==
    (IF NewLine.e < Len(New) THEN { New[NewLine.e + 1].R.start.line } ELSE {})
        \cup (IF OldLine.e < Len(Old) THEN { Old[OldLine.e + 1].R.start.line } ELSE {})

\* both cursors are at the end of their sequences
BothAtEnd == NewLine.e = Len(New) /\ OldLine.e = Len(Old)

\* the state before the first iteration
BeforeFirstStep == NewLine.e = 0 /\ OldLine.e = 0 /\ LineNumber = 0

\* an iteration of the loop has just run
LoopStep == dpc = "loop" /\ dpc' = "loop"

\* C12: the loop of diffHighlightings terminates. No cursor is ever past the
\* end of its sequence or moves back; after an iteration, while a token is
\* left, the line number is the least start line of the first unconsumed
\* tokens of New and Old; every iteration but the first consumes at least one
\* token; the loop goes on while a cursor is short of the end and returns when
\* both are at the end.
C12_DiffLoopTerminates ==
    /\ [](NewLine.b <= NewLine.e /\ NewLine.e <= Len(New)
            /\ OldLine.b <= OldLine.e /\ OldLine.e <= Len(Old))
    /\ [][LoopStep =>
            /\ ~BothAtEnd
            /\ NewLine'.b = NewLine.e /\ OldLine'.b = OldLine.e
            /\ PendingLines' # {}
                  => /\ LineNumber' \in PendingLines'
                     /\ \A l \in PendingLines' : LineNumber' <= l
            /\ ~BeforeFirstStep
                  => NewLine'.e + OldLine'.e > NewLine.e + OldLine.e
       ]_vars
    /\ [][(dpc = "loop" /\ dpc' = "done") => BothAtEnd]_vars
    /\ [](dpc = "done" => BothAtEnd)
    /\ <>(dpc = "done")

\* the diff of two sets returned; neither set has a token on line 0, so the
\* first iteration consumed nothing, and each set has a line the other lacks
C12_Witness ==
    /\ dpc = "done" /\ BothAtEnd
    /\ New # << >> /\ Old # << >>
    /\ New[1].R.start.line > 0 /\ Old[1].R.start.line > 0
    /\ \E line \in DiffLines : OnLine(New, line) # << >> /\ OnLine(Old, line) = << >>
    /\ \E line \in DiffLines : OnLine(Old, line) # << >> /\ OnLine(New, line) = << >>

----------------------------------------------------------------------------
(* Properties of the encoder, under SpecWire *)

\* the standard base64 alphabet (RFC 4648), one string per character
StdAlphabet ==
    << "A", "B", "C", "D", "E", "F", "G", "H", "I", "J", "K", "L", "M",
       "N", "O", "P", "Q", "R", "S", "T", "U", "V", "W", "X", "Y", "Z",
       "a", "b", "c", "d", "e", "f", "g", "h", "i", "j", "k", "l", "m",
       "n", "o", "p", "q", "r", "s", "t", "u", "v", "w", "x", "y", "z",
       "0", "1", "2", "3", "4", "5", "6", "7", "8", "9", "+", "/" >>

StdValue(c) == (CHOOSE i \in 1..64 : StdAlphabet[i] = c) - 1

\* standard base64 decoding of a padded string, to byte values
RECURSIVE StdDecode(_)
StdDecode(str) ==
    IF Len(str) < 4 THEN << >>
    ELSE LET v3 == IF str[3] = "=" THEN 0 ELSE StdValue(str[3])
             v4 == IF str[4] = "=" THEN 0 ELSE StdValue(str[4])
             v == StdValue(str[1]) * 262144 + StdValue(str[2]) * 4096 + v3 * 64 + v4
             three == << v \div 65536, (v \div 256) % 256, v % 256 >>
             n == IF str[3] = "=" THEN 1 ELSE IF str[4] = "=" THEN 2 ELSE 3
         IN  SubSeq(three, 1, n) \o StdDecode(SubSeq(str, 5, Len(str)))

\* a byte buffer split into 8-byte big-endian records: << u32, u16, u16 >>
RECURSIVE WireRecords(_)
WireRecords(bytes) ==
    IF Len(bytes) < 8 THEN << >>
    ELSE << << ((bytes[1] * 256 + bytes[2]) * 256 + bytes[3]) * 256 + bytes[4],
               bytes[5] * 256 + bytes[6],
               bytes[7] * 256 + bytes[8] >> >>
             \o WireRecords(SubSeq(bytes, 9, Len(bytes)))

\* the (start column, length, kind ordinal) triples of a line's tokens
Triples(LineTokens) ==
    [j \in 1..Len(LineTokens) |->
        << LineTokens[j].R.start.character,
           LineTokens[j].R.end.character - LineTokens[j].R.start.character,
           KindOrdinal(LineTokens[j].Kind) >>]

\* every length of the line fits 16 bits
LengthsFit(LineTokens) ==
    \A j \in 1..Len(LineTokens) : Triples(LineTokens)[j][2] \in 0..65535

\* C7: for a line whose lengths fit 16 bits, decoding the payload with the
\* standard alphabet and splitting it into 8-byte big-endian records gives the
\* (start column, length, kind ordinal) triples of the line's tokens, in order.
C7_Base64RoundTrip ==
    wpc = "done" =>
        \A i \in 1..Len(WireIn) :
            LengthsFit(WireIn[i].Tokens)
                => /\ WireOut[i].Line = WireIn[i].Line
                   /\ Len(WireOut[i].Tokens) % 4 = 0
                   /\ WireRecords(StdDecode(WireOut[i].Tokens)) = Triples(WireIn[i].Tokens)

\* C8: the 8-byte record of every token holds the start column in its 4-byte
\* field, end column minus start column in its 2-byte length field and the kind
\* ordinal in its last field, for tokens that end on a later line as well.
C8_RecordFields ==
    wpc = "done" =>
        \A i \in 1..Len(WireIn) : WireRecords(WireBytes[i]) = Triples(WireIn[i].Tokens)

----------------------------------------------------------------------------
(* Every entry point together *)

Init == InitCollect \/ InitClassify \/ InitAddToken \/ InitDiff \/ InitWire

Next == NextCollect \/ NextClassify \/ NextDiff \/ NextWire

Spec == Init /\ [][Next]_vars

====
